---- MODULE Spec2Model ----
(***************************************************************************)
(* Model of src/completion.py: the two request/response pipelines          *)
(* (generate_completion_response, generate_image_response) and the two     *)
(* renderers (process_response, process_image_response).                   *)
(*                                                                         *)
(* A pipeline call is cut at its await points: the POST, the read of the   *)
(* body.  Everything the server, the collaborators (Message.render, the    *)
(* text splitter) or the scheduler decide is an input drawn from a small   *)
(* set.                                                                    *)
(***************************************************************************)
EXTENDS Integers, Sequences, FiniteSets, TLC

\* ---------------------------------------------------------------- bounds
NumTasks == 2        \* concurrently running caller tasks
MaxMsgs == 1         \* longest conversation handed to the completion pipeline
MaxLen == 5          \* longest reply text handed to a renderer
SplitLimit == 3      \* platform size limit of one chunk of the text splitter

\* MAX_CHARS_PER_REPLY_MSG of src.constants, scaled to the texts of the model
MAX_CHARS_PER_REPLY_MSG == 2

Tasks == 1..NumTasks
\* the task that runs in the single-call specifications
Caller == CHOOSE t \in Tasks : \A u \in Tasks : t <= u

\* ------------------------------------------------------------ data model
\* class CompletionResult(Enum)
OK == "OK"
TOO_LONG == "TOO_LONG"
ERROR == "ERROR"
CompletionResult == {OK, TOO_LONG, ERROR}

Char == {"a", "b"}

\* all strings of at most n characters
StrUpTo(n) == UNION {[1..k -> Char] : k \in 0..n}

\* Optional[str]: None, or a string (possibly the empty one)
None == [present |-> FALSE, text |-> <<>>]
Some(s) == [present |-> TRUE, text |-> s]

\* Python truthiness of an Optional[str]: None and "" are falsy
Truthy(o) == o.present /\ Len(o.text) > 0

\* A parsed JSON body, by the shape the code indexes into:
\*   "choices": {choices: [{message: {content: value}}]}
\*   "data":    {data: [{b64_json: value}]}
\*   "error":   {error: {code: code}}
\*   "garbage": not JSON, or JSON of none of these shapes
\* value is None for a JSON null.
Sentinel == "context_length_exceeded"
Codes == {Sentinel, "invalid_api_key"}
Values == {None, Some(<<>>), Some(<<"a">>)}
NoBody == [shape |-> "none", value |-> None, code |-> ""]
Bodies ==
    {[shape |-> s, value |-> v, code |-> ""] : s \in {"choices", "data"}, v \in Values}
    \cup {[shape |-> "error", value |-> None, code |-> c] : c \in Codes}
    \cup {[shape |-> "garbage", value |-> None, code |-> ""]}
Statuses == {200, 400, 500}
Responses == {[status |-> s, body |-> b] : s \in Statuses, b \in Bodies}
NoResponse == [status |-> 0, body |-> NoBody]

\* status_text: None, the parsed error payload js, or str(e)
NoStatus == [tag |-> "None", js |-> NoBody, msg |-> ""]
Payload(js) == [tag |-> "json", js |-> js, msg |-> ""]
StrOf(m) == [tag |-> "str", js |-> NoBody, msg |-> m]

\* an Exception raised in a call: the step that raised it and str(e)
NoExc == [where |-> "", msg |-> ""]
Exc(w, m) == [where |-> w, msg |-> m]

\* CompletionData / ImageCompletionData (payload is reply_text / image64)
Data(st, payload, stext) == [status |-> st, payload |-> payload, status_text |-> stext]
NoResult == [status |-> "none", payload |-> None, status_text |-> NoStatus]

\* Message.render(): a message either renders or raises
Msg == {"ok", "bad"}
Inputs(kind) ==
    IF kind = "completion" THEN UNION {[1..k -> Msg] : k \in 0..MaxMsgs}
    ELSE [1..1 -> Msg]
Kinds == {"completion", "image"}

VARIABLES
    pc,         \* position of each task's call
    kind,       \* which pipeline the task called
    input,      \* the messages (completion) or the prompt (image)
    session,    \* id of the ClientSession the call opened, 0 if none
    open,       \* ids of the sessions currently open
    nextId,     \* id the next ClientSession() gets
    posts,      \* POSTs issued by the call
    logged,     \* logger.exception calls of the call
    resp,       \* the HTTP response the call received
    raised,     \* the Exception raised in the call: where, and its str(e)
    result,     \* the bundle the call returned
    chunks,     \* what the text splitter returned to the renderer
    sink        \* what the renderer did on the thread / channel, in order

vars == <<pc, kind, input, session, open, nextId, posts, logged, resp, raised,
          result, chunks, sink>>

\* ------------------------------------------------------ pipeline helpers
\* `async with aiohttp.ClientSession() as session`: leaving the block, by
\* return, by an Exception or by CancelledError, closes the session.
SessionExitLeak(o, s) == o
SessionExit(o, s) == o \ {s}

\* the key of the body that pipeline k indexes first for a response r
FirstKey(k, r) ==
    IF r.status # 200 THEN "error"
    ELSE IF k = "completion" THEN "choices" ELSE "data"

\* whether reading the body of r raises in pipeline k: `await r.json()` on a
\* body that is not JSON, or js[key] on a body without that key
ParseRaises(k, r) == r.body.shape # FirstKey(k, r)

\* str(e) of what reading the body raised
ParseError(k, r) ==
    IF r.body.shape = "garbage" THEN "ContentTypeError" ELSE FirstKey(k, r)

\* status = TOO_LONG if code == 'context_length_exceeded' else ERROR
ClassifyAlwaysError(code) == ERROR
Classify(code) == IF code = Sentinel THEN TOO_LONG ELSE ERROR

\* the `except Exception as e` clause: the bundle made from str(e)
ExceptKeepsPayload(msg) == Data(ERROR, Some(<<"a">>), StrOf(msg))
Except(msg) == Data(ERROR, None, StrOf(msg))

\* the non-200 branch: js['error']['code'], classification, status_text=js
ErrorBranchDropsPayload(body) == Data(Classify(body.code), None, NoStatus)
ErrorBranch(body) == Data(Classify(body.code), None, Payload(body))

\* generate_completion_response, from `if r.status == 200` on
CompletionOfWrongStatus(r) ==
    IF ParseRaises("completion", r) THEN Except(ParseError("completion", r))
    ELSE IF r.status = 200 THEN Data(OK, r.body.value, Payload(r.body))
    ELSE ErrorBranch(r.body)
CompletionOf(r) ==
    IF ParseRaises("completion", r) THEN Except(ParseError("completion", r))
    ELSE IF r.status = 200 THEN Data(OK, r.body.value, NoStatus)
    ELSE ErrorBranch(r.body)

\* generate_image_response, from `if r.status == 200` on
ImageOf(r) ==
    IF ParseRaises("image", r) THEN Except(ParseError("image", r))
    ELSE IF r.status = 200 THEN Data(OK, r.body.value, NoStatus)
    ELSE ErrorBranch(r.body)

\* [message.render() for message in messages] raises at the first message
\* whose render() raises
RenderRaises(msgs) == \E i \in 1..Len(msgs) : msgs[i] = "bad"

\* ---------------------------------------------------------------- state
Init ==
    /\ pc = [t \in Tasks |-> "idle"]
    /\ kind = [t \in Tasks |-> "completion"]
    /\ input = [t \in Tasks |-> <<>>]
    /\ session = [t \in Tasks |-> 0]
    /\ open = {}
    /\ nextId = 1
    /\ posts = [t \in Tasks |-> 0]
    /\ logged = [t \in Tasks |-> 0]
    /\ resp = [t \in Tasks |-> NoResponse]
    /\ raised = [t \in Tasks |-> NoExc]
    /\ result = [t \in Tasks |-> NoResult]
    /\ chunks = [t \in Tasks |-> <<>>]
    /\ sink = [t \in Tasks |-> <<>>]

\* The synchronous head of a pipeline call, up to its first await:
\* ClientSession() (which may raise: sessionOk), the rendering of the
\* input, and the issue of the POST.
Begin(t, k, msgs, sessionOk) ==
    /\ pc[t] = "idle"
    /\ kind' = [kind EXCEPT ![t] = k]
    /\ input' = [input EXCEPT ![t] = msgs]
    /\ UNCHANGED <<resp, chunks, sink>>
    /\ IF ~sessionOk
       THEN /\ raised' = [raised EXCEPT ![t] = Exc("session", "session")]
            /\ logged' = [logged EXCEPT ![t] = @ + 1]
            /\ result' = [result EXCEPT ![t] = Except("session")]
            /\ pc' = [pc EXCEPT ![t] = "returned"]
            /\ UNCHANGED <<session, open, nextId, posts>>
       ELSE /\ session' = [session EXCEPT ![t] = nextId]
            /\ nextId' = nextId + 1
            /\ IF RenderRaises(msgs)
               THEN /\ open' = SessionExit(open \cup {nextId}, nextId)
                    /\ raised' = [raised EXCEPT ![t] = Exc("render", "render")]
                    /\ logged' = [logged EXCEPT ![t] = @ + 1]
                    /\ result' = [result EXCEPT ![t] = Except("render")]
                    /\ pc' = [pc EXCEPT ![t] = "returned"]
                    /\ UNCHANGED posts
               ELSE /\ open' = open \cup {nextId}
                    /\ posts' = [posts EXCEPT ![t] = @ + 1]
                    /\ pc' = [pc EXCEPT ![t] = "posting"]
                    /\ UNCHANGED <<raised, logged, result>>

\* generate_completion_response(messages), up to `async with session.post(`
GenerateCompletionCall(t, Ins) ==
    \E msgs \in Ins \cap Inputs("completion"), sessionOk \in BOOLEAN :
        Begin(t, "completion", msgs, sessionOk)

\* generate_image_response(prompt), up to `async with session.post(`
GenerateImageCall(t, Ins) ==
    \E msgs \in Ins \cap Inputs("image"), sessionOk \in BOOLEAN :
        Begin(t, "image", msgs, sessionOk)

\* the transport raises during the await of session.post
TransportMsgs == {"", "Cannot connect to host"}
PostFailsRetries(t) ==
    /\ pc[t] = "posting"
    /\ posts' = [posts EXCEPT ![t] = @ + 1]
    /\ UNCHANGED <<pc, kind, input, session, open, nextId, logged, resp, raised,
                   result, chunks, sink>>
PostFails(t) ==
    /\ pc[t] = "posting"
    /\ \E m \in TransportMsgs :
          /\ result' = [result EXCEPT ![t] = Except(m)]
          /\ raised' = [raised EXCEPT ![t] = Exc("post", m)]
    /\ logged' = [logged EXCEPT ![t] = @ + 1]
    /\ open' = SessionExit(open, session[t])
    /\ pc' = [pc EXCEPT ![t] = "returned"]
    /\ UNCHANGED <<kind, input, session, nextId, posts, resp, chunks, sink>>

\* session.post yields the response r
Respond(t, Rs) ==
    /\ pc[t] = "posting"
    /\ \E r \in Rs : resp' = [resp EXCEPT ![t] = r]
    /\ pc' = [pc EXCEPT ![t] = "responded"]
    /\ UNCHANGED <<kind, input, session, open, nextId, posts, logged, raised,
                   result, chunks, sink>>

\* Rest of a call once `await r.json()` is over: the bundle, the log entry if
\* reading raised, the release of the session, the return.
Finish(t, k, bundle) ==
    /\ pc[t] = "responded"
    /\ kind[t] = k
    /\ result' = [result EXCEPT ![t] = bundle]
    /\ IF ParseRaises(k, resp[t])
       THEN /\ raised' = [raised EXCEPT ![t] = Exc("json", ParseError(k, resp[t]))]
            /\ logged' = [logged EXCEPT ![t] = @ + 1]
       ELSE UNCHANGED <<raised, logged>>
    /\ open' = SessionExit(open, session[t])
    /\ pc' = [pc EXCEPT ![t] = "returned"]
    /\ UNCHANGED <<kind, input, session, nextId, posts, resp, chunks, sink>>

GenerateCompletionReturn(t) == Finish(t, "completion", CompletionOf(resp[t]))

GenerateImageReturn(t) == Finish(t, "image", ImageOf(resp[t]))

\* The surrounding task is cancelled while the call is suspended: the
\* CancelledError is no Exception, so it leaves both `async with` blocks and
\* the function without passing through the except clause.
Cancel(t) ==
    /\ pc[t] \in {"posting", "responded"}
    /\ open' = SessionExit(open, session[t])
    /\ pc' = [pc EXCEPT ![t] = "cancelled"]
    /\ UNCHANGED <<kind, input, session, nextId, posts, logged, resp, raised,
                   result, chunks, sink>>

\* ------------------------------------------------------------- renderers
\* What a renderer does on its thread / channel, one record per call made:
\* thread.send(text), thread.send(file=...), thread.send(embed=...),
\* close_thread(thread).
SendText(s) == [op |-> "text", text |-> s, title |-> "", color |-> "", about |-> NoStatus]
SendFile(s) == [op |-> "file", text |-> s, title |-> "", color |-> "", about |-> NoStatus]
SendEmbed(title, stext) ==
    [op |-> "embed", text |-> <<>>, title |-> title, color |-> "yellow", about |-> stext]
\* channel.send(file=discord_image(image64)): text is the base64 string the
\* attachment was made from
SendImage(b64) == [op |-> "file", text |-> b64, title |-> "", color |-> "", about |-> NoStatus]
CloseThread == [op |-> "close", text |-> <<>>, title |-> "", color |-> "", about |-> NoStatus]

\* discord.Embed(description=f"**Invalid response** - empty response", ...)
InvalidResponse == SendEmbed("Invalid response", NoStatus)
\* discord.Embed(description=f"**Error** - {status_text}", ...)
ErrorNotice(stext) == SendEmbed("Error", stext)

Min(a, b) == IF a < b THEN a ELSE b

\* split_into_shorter_messages: every ordered cut of the text into non-empty
\* chunks of at most SplitLimit characters
RECURSIVE Splits(_)
Splits(s) ==
    IF s = <<>> THEN {<<>>}
    ELSE UNION {{<<SubSeq(s, 1, k)>> \o rest : rest \in Splits(SubSeq(s, k + 1, Len(s)))} :
                k \in 1..Min(SplitLimit, Len(s))}

\* the loop `for r in shorter_response` of process_response
SendChunksAtThreshold(cs) ==
    [i \in 1..Len(cs) |->
        IF Len(cs[i]) >= MAX_CHARS_PER_REPLY_MSG THEN SendFile(cs[i]) ELSE SendText(cs[i])]
SendChunks(cs) ==
    [i \in 1..Len(cs) |->
        IF Len(cs[i]) > MAX_CHARS_PER_REPLY_MSG THEN SendFile(cs[i]) ELSE SendText(cs[i])]

\* process_response(thread, response_data), cs being what the splitter
\* returns when it is called
process_response_too_long_notice(data, cs) ==
    IF data.status = OK
    THEN IF ~Truthy(data.payload) THEN <<InvalidResponse>> ELSE SendChunks(cs)
    ELSE <<ErrorNotice(data.status_text)>>
process_response_no_empty_check(data, cs) ==
    IF data.status = OK
    THEN SendChunks(cs)
    ELSE IF data.status = TOO_LONG THEN <<CloseThread>>
    ELSE <<ErrorNotice(data.status_text)>>
process_response(data, cs) ==
    IF data.status = OK
    THEN IF ~Truthy(data.payload) THEN <<InvalidResponse>> ELSE SendChunks(cs)
    ELSE IF data.status = TOO_LONG THEN <<CloseThread>>
    ELSE <<ErrorNotice(data.status_text)>>

\* process_image_response(channel, response_data)
process_image_response_closes(data) ==
    IF data.status = OK
    THEN IF ~Truthy(data.payload) THEN <<InvalidResponse>> ELSE <<SendImage(data.payload.text)>>
    ELSE IF data.status = TOO_LONG THEN <<CloseThread>>
    ELSE <<ErrorNotice(data.status_text)>>
process_image_response(data) ==
    IF data.status = OK
    THEN IF ~Truthy(data.payload) THEN <<InvalidResponse>> ELSE <<SendImage(data.payload.text)>>
    ELSE <<ErrorNotice(data.status_text)>>

\* the caller hands the bundle of its text call to process_response
ProcessResponse(t) ==
    /\ pc[t] = "returned"
    /\ kind[t] = "completion"
    /\ \E cs \in (IF result[t].status = OK /\ Truthy(result[t].payload)
                  THEN Splits(result[t].payload.text) ELSE {<<>>}) :
          /\ chunks' = [chunks EXCEPT ![t] = cs]
          /\ sink' = [sink EXCEPT ![t] = process_response(result[t], cs)]
    /\ pc' = [pc EXCEPT ![t] = "rendered"]
    /\ UNCHANGED <<kind, input, session, open, nextId, posts, logged, resp,
                   raised, result>>

\* the caller hands the bundle of its image call to process_image_response
ProcessImageResponse(t) ==
    /\ pc[t] = "returned"
    /\ kind[t] = "image"
    /\ sink' = [sink EXCEPT ![t] = process_image_response(result[t])]
    /\ pc' = [pc EXCEPT ![t] = "rendered"]
    /\ UNCHANGED <<kind, input, session, open, nextId, posts, logged, resp,
                   raised, result, chunks>>

\* -------------------------------------------------------- specifications
AllInputs == Inputs("completion") \cup Inputs("image")

\* One call of either pipeline, on every input and every response, followed
\* by its renderer.
Next ==
    \/ GenerateCompletionCall(Caller, AllInputs)
    \/ GenerateImageCall(Caller, AllInputs)
    \/ PostFails(Caller)
    \/ Respond(Caller, Responses)
    \/ GenerateCompletionReturn(Caller)
    \/ GenerateImageReturn(Caller)
    \/ Cancel(Caller)
    \/ ProcessResponse(Caller)
    \/ ProcessImageResponse(Caller)

Spec == Init /\ [][Next]_vars

\* Calls of all tasks interleaved at their await points, on one input and
\* one response of each sort.
ConcInputs == {<<"ok">>, <<"bad">>}
ConcResponses ==
    {[status |-> 200, body |-> [shape |-> "choices", value |-> Some(<<"a">>), code |-> ""]],
     [status |-> 200, body |-> [shape |-> "data", value |-> Some(<<"a">>), code |-> ""]],
     [status |-> 400, body |-> [shape |-> "error", value |-> None, code |-> Sentinel]],
     [status |-> 500, body |-> [shape |-> "garbage", value |-> None, code |-> ""]]}

NextConc ==
    \E t \in Tasks :
        \/ GenerateCompletionCall(t, ConcInputs)
        \/ GenerateImageCall(t, ConcInputs)
        \/ PostFails(t)
        \/ Respond(t, ConcResponses)
        \/ GenerateCompletionReturn(t)
        \/ GenerateImageReturn(t)
        \/ Cancel(t)

SpecConc == Init /\ [][NextConc]_vars

\* A renderer called on any bundle whatever, not only on those a pipeline
\* makes.
StatusTexts ==
    {NoStatus, StrOf("Cannot connect to host"),
     Payload([shape |-> "error", value |-> None, code |-> Sentinel])}
AllData ==
    {Data(st, p, stext) :
        st \in CompletionResult,
        p \in {None} \cup {Some(s) : s \in StrUpTo(MaxLen)},
        stext \in StatusTexts}

InitRender ==
    /\ pc = [t \in Tasks |-> IF t = Caller THEN "returned" ELSE "idle"]
    /\ kind \in {[t \in Tasks |-> k] : k \in Kinds}
    /\ input = [t \in Tasks |-> <<>>]
    /\ session = [t \in Tasks |-> 0]
    /\ open = {}
    /\ nextId = 1
    /\ posts = [t \in Tasks |-> 0]
    /\ logged = [t \in Tasks |-> 0]
    /\ resp = [t \in Tasks |-> NoResponse]
    /\ raised = [t \in Tasks |-> NoExc]
    /\ result \in {[t \in Tasks |-> IF t = Caller THEN d ELSE NoResult] : d \in AllData}
    /\ chunks = [t \in Tasks |-> <<>>]
    /\ sink = [t \in Tasks |-> <<>>]

NextRender ==
    \/ ProcessResponse(Caller)
    \/ ProcessImageResponse(Caller)

SpecRender == InitRender /\ [][NextRender]_vars

\* ---------------------------------------------------------------- claims
Returned(t) == pc[t] \in {"returned", "rendered"}
Answered(t) == Returned(t) /\ resp[t] # NoResponse
StatusTextPresent(d) == d.status_text.tag # "None"

\* C1: a call of generate_completion_response on a non-empty message
\* sequence that received a 200 response with a well-formed choices body
\* returns status OK, reply_text equal to the content of the body (the empty
\* content included) and no status_text.
C1_OkCarriesContent ==
    \A t \in Tasks :
        (/\ Answered(t)
         /\ kind[t] = "completion"
         /\ Len(input[t]) > 0
         /\ resp[t].status = 200
         /\ resp[t].body.shape = "choices")
        => /\ result[t].status = OK
           /\ result[t].payload = resp[t].body.value
           /\ ~StatusTextPresent(result[t])

C1_Witness ==
    \E t \in Tasks :
        /\ Answered(t)
        /\ kind[t] = "completion"
        /\ Len(input[t]) > 0
        /\ resp[t].status = 200
        /\ resp[t].body.value = Some(<<>>)
        /\ result[t].status = OK
        /\ result[t].payload = Some(<<>>)

\* C2: in both pipelines, after a non-200 response the result is TOO_LONG
\* exactly when the error code of the body is the context-length sentinel
\* and ERROR otherwise; the payload is absent, and when the body carries an
\* error code the parsed body itself is the status_text.
C2_Non200Classified ==
    \A t \in Tasks :
        (Answered(t) /\ resp[t].status # 200)
        => /\ result[t].status = TOO_LONG
                <=> (resp[t].body.shape = "error" /\ resp[t].body.code = Sentinel)
           /\ result[t].status \in {TOO_LONG, ERROR}
           /\ result[t].payload = None
           /\ resp[t].body.shape = "error"
                => result[t].status_text = [tag |-> "json", js |-> resp[t].body, msg |-> ""]

C2_Witness ==
    \E t \in Tasks :
        /\ Answered(t)
        /\ kind[t] = "image"
        /\ resp[t].status = 400
        /\ resp[t].body.code = Sentinel
        /\ result[t].status = TOO_LONG

\* C3: in both pipelines an Exception raised while making the session,
\* rendering, posting or reading the body (after a 200 or not) ends the call
\* with a returned bundle: status ERROR, no payload, status_text str(e); it
\* was logged exactly once, and a call in which none was raised logged
\* nothing.
C3_ExceptionBecomesError ==
    \A t \in Tasks :
        /\ raised[t] # NoExc
            => /\ Returned(t)
               /\ result[t].status = ERROR
               /\ result[t].payload = None
               /\ result[t].status_text = [tag |-> "str", js |-> NoBody, msg |-> raised[t].msg]
               /\ logged[t] = 1
        /\ raised[t] = NoExc => logged[t] = 0

C3_Witness ==
    \E t \in Tasks :
        /\ Returned(t)
        /\ raised[t].where = "json"
        /\ resp[t].status = 200
        /\ kind[t] = "image"
        /\ result[t].status = ERROR
        /\ logged[t] = 1

\* C4 as stated: every returned bundle has its payload present exactly when
\* its status is OK and its status_text present exactly when it is not.
C4_ExactlyOnePopulated ==
    \A t \in Tasks :
        Returned(t)
        => /\ result[t].payload.present <=> result[t].status = OK
           /\ StatusTextPresent(result[t]) <=> result[t].status # OK

\* C4 as amended: every returned bundle has its status_text present exactly
\* when its status is not OK, and no payload when its status is not OK; an
\* OK bundle carries whatever the body held, a JSON null included.
C4_StatusTextIffNotOk ==
    \A t \in Tasks :
        Returned(t)
        => /\ StatusTextPresent(result[t]) <=> result[t].status # OK
           /\ result[t].status # OK => ~result[t].payload.present
           /\ result[t].status = OK => result[t].payload = resp[t].body.value

C4_Witness ==
    \E t \in Tasks :
        /\ Returned(t)
        /\ result[t].status = OK
        /\ ~result[t].payload.present
        /\ ~StatusTextPresent(result[t])

\* C5 as stated: every call that returned issued exactly one POST.
C5_ExactlyOnePost ==
    \A t \in Tasks : Returned(t) => posts[t] = 1

\* C5 as amended: a call never issues more than one POST; a call that
\* returned issued exactly one unless an Exception was raised before the
\* POST (making the session, rendering), and then it issued none and
\* returned ERROR.
C5_AtMostOnePost ==
    \A t \in Tasks :
        /\ posts[t] <= 1
        /\ Returned(t)
            => /\ posts[t] = 0 <=> raised[t].where \in {"session", "render"}
               /\ posts[t] = 0 => result[t].status = ERROR

C5_Witness ==
    \E t \in Tasks :
        /\ Returned(t)
        /\ raised[t].where = "render"
        /\ posts[t] = 0
        /\ result[t].status = ERROR

\* C6: process_response on a TOO_LONG bundle closes the thread once and
\* sends nothing, whatever reply_text and status_text are.
C6_TooLongClosesThread ==
    \A t \in Tasks :
        (pc[t] = "rendered" /\ kind[t] = "completion" /\ result[t].status = TOO_LONG)
        => /\ Len(sink[t]) = 1
           /\ sink[t][1].op = "close"
           /\ \A i \in 1..Len(sink[t]) : sink[t][i].op \notin {"text", "file", "embed"}

C6_Witness ==
    \E t \in Tasks :
        /\ pc[t] = "rendered"
        /\ kind[t] = "completion"
        /\ result[t].status = TOO_LONG
        /\ Truthy(result[t].payload)
        /\ StatusTextPresent(result[t])
        /\ sink[t] = <<CloseThread>>

\* C7: process_response on an OK bundle with a non-empty reply_text makes
\* one send per chunk of the splitter, in order: a file for a chunk longer
\* than MAX_CHARS_PER_REPLY_MSG, a text message for any other; no notice,
\* no closure.
C7_OneSendPerChunk ==
    \A t \in Tasks :
        (/\ pc[t] = "rendered"
         /\ kind[t] = "completion"
         /\ result[t].status = OK
         /\ Truthy(result[t].payload))
        => /\ Len(sink[t]) = Len(chunks[t])
           /\ \A i \in 1..Len(sink[t]) :
                /\ sink[t][i].text = chunks[t][i]
                /\ sink[t][i].op = "file" <=> Len(chunks[t][i]) > MAX_CHARS_PER_REPLY_MSG
                /\ sink[t][i].op = "text" <=> Len(chunks[t][i]) <= MAX_CHARS_PER_REPLY_MSG

C7_Witness ==
    \E t \in Tasks :
        /\ pc[t] = "rendered"
        /\ kind[t] = "completion"
        /\ result[t].status = OK
        /\ Len(chunks[t]) = 2
        /\ Len(chunks[t][1]) = MAX_CHARS_PER_REPLY_MSG
        /\ Len(chunks[t][2]) > MAX_CHARS_PER_REPLY_MSG
        /\ sink[t][1].op = "text"
        /\ sink[t][2].op = "file"

\* C8: process_image_response makes exactly one send for every bundle: a
\* file for OK with a non-empty payload, the invalid-response notice for OK
\* with an empty or absent payload, an error notice carrying status_text
\* for any other status, TOO_LONG included; it never closes anything.
C8_ImageOneSend ==
    \A t \in Tasks :
        (pc[t] = "rendered" /\ kind[t] = "image")
        => /\ Len(sink[t]) = 1
           /\ (result[t].status = OK /\ Truthy(result[t].payload))
                => sink[t][1].op = "file" /\ sink[t][1].text = result[t].payload.text
           /\ (result[t].status = OK /\ ~Truthy(result[t].payload))
                => sink[t][1].op = "embed" /\ sink[t][1].title = "Invalid response"
           /\ result[t].status # OK
                => /\ sink[t][1].op = "embed"
                   /\ sink[t][1].title = "Error"
                   /\ sink[t][1].about = result[t].status_text

C8_Witness ==
    \E t \in Tasks :
        /\ pc[t] = "rendered"
        /\ kind[t] = "image"
        /\ result[t].status = TOO_LONG
        /\ StatusTextPresent(result[t])
        /\ sink[t] = <<ErrorNotice(result[t].status_text)>>

\* C9: process_response on an OK bundle with an empty or absent reply_text
\* emits the one invalid-response notice, and on an ERROR bundle the one
\* error notice carrying status_text; in both the splitter is not used and
\* the thread is not closed.
C9_NoticeOnEmptyOrError ==
    \A t \in Tasks :
        (pc[t] = "rendered" /\ kind[t] = "completion")
        => /\ (result[t].status = OK /\ ~Truthy(result[t].payload))
                => /\ Len(sink[t]) = 1
                   /\ sink[t][1].op = "embed"
                   /\ sink[t][1].title = "Invalid response"
                   /\ sink[t][1].color = "yellow"
                   /\ chunks[t] = <<>>
           /\ result[t].status = ERROR
                => /\ Len(sink[t]) = 1
                   /\ sink[t][1].op = "embed"
                   /\ sink[t][1].title = "Error"
                   /\ sink[t][1].about = result[t].status_text
                   /\ chunks[t] = <<>>

C9_Witness ==
    \E t \in Tasks :
        /\ pc[t] = "rendered"
        /\ kind[t] = "completion"
        /\ result[t].status = OK
        /\ result[t].payload = Some(<<>>)
        /\ sink[t] = <<InvalidResponse>>

\* C10: in every interleaving each suspended call holds an open session of
\* its own, the open sessions are those of the suspended calls, a call that
\* ended (by returning or by cancellation) has its session released, and a
\* cancelled call has neither a result nor a log entry.
Suspended(t) == pc[t] \in {"posting", "responded"}

C10_SessionScopedToCall ==
    /\ \A t \in Tasks : Suspended(t) => session[t] \in open
    /\ \A t, u \in Tasks : (t # u /\ Suspended(t) /\ Suspended(u)) => session[t] # session[u]
    /\ open = {session[t] : t \in {u \in Tasks : Suspended(u)}}
    /\ \A t \in Tasks : pc[t] \in {"returned", "cancelled"} => session[t] \notin open
    /\ \A t \in Tasks : pc[t] = "cancelled" => result[t] = NoResult /\ logged[t] = 0

C10_Witness ==
    \E t, u \in Tasks :
        /\ pc[t] = "cancelled"
        /\ session[t] # 0
        /\ pc[u] = "responded"
        /\ open = {session[u]}

====
